---- MODULE Spec2Model ----
(***************************************************************************)
(* Nova core service.                                                      *)
(*                                                                         *)
(* Persistence lifecycle (app/db/session.py): the module keeps two         *)
(* process-wide caches (_ENGINE, _SESSION_LOCAL), resolves the database    *)
(* URL from settings and the environment, builds the engine with a         *)
(* bounded, linearly backed-off retry loop, and hands out sessions through *)
(* a generator that closes them in a finally block.                        *)
(*                                                                         *)
(* HTTP surface (app/main.py, app/routers/core.py, app/models/base.py):    *)
(* five routes, two exception handlers and the response envelopes.         *)
(*                                                                         *)
(* Record store: the add / commit / query round trip of the model tests.   *)
(*                                                                         *)
(* Python values: None is modelled by the sentinels None (strings) and     *)
(* NoEngine / NoFactory / NoExc (objects); truthiness follows Python.      *)
(***************************************************************************)
EXTENDS Integers, Sequences, FiniteSets, TLC

VARIABLES
    settings_database_url,  \* settings.database_url (None when unset)
    environ,                \* os.environ restricted to the two variables read
    sqlalchemy_installed,   \* whether the import at module load succeeded
    ENGINE,                 \* module global _ENGINE (an engine, or NoEngine)
    SESSION_LOCAL,          \* module global _SESSION_LOCAL (a factory, or NoFactory)
    engines,                \* number of engine objects create_engine has built
    engine_writes,          \* number of assignments to _ENGINE since the last reset
    factory_writes,         \* number of assignments to _SESSION_LOCAL since the last reset
    th,                     \* per thread: position, locals and outcome of its call
    url_out,                \* outcome of the last direct get_database_url() call
    version_info,           \* settings.version, kept as app.state.version_info
    clock,                  \* the system's UTC wall clock, read by datetime.now
    start_time,             \* START_TIME, the clock reading at import
    exchange,               \* the last request served and what the client received
    prev_timestamp,         \* timestamp of the Meta built before the last one
    tables,                 \* committed rows of the store, per record kind
    pending,                \* records added to the open session, not yet committed
    fetched                 \* outcome of the last query by external_id

\* the HTTP surface (app/main.py, app/routers/core.py)
http == <<version_info, clock, start_time, exchange, prev_timestamp>>

\* the record store behind a session (tests/test_*_model.py)
orm == <<tables, pending, fetched>>

\* the persistence lifecycle (app/db/session.py)
persistence == <<settings_database_url, environ, sqlalchemy_installed, ENGINE,
                 SESSION_LOCAL, engines, engine_writes, factory_writes, th, url_out>>

vars == <<settings_database_url, environ, sqlalchemy_installed, ENGINE,
          SESSION_LOCAL, engines, engine_writes, factory_writes, th, url_out,
          version_info, clock, start_time, exchange, prev_timestamp,
          tables, pending, fetched>>

----------------------------------------------------------------------------
(* Bounds of the model *)

\* largest max_retries argument passed to get_engine directly
MaxRetries == 2
\* largest backoff_seconds argument passed to get_engine directly
MaxBackoff == 1
\* number of engine objects create_engine may build in one run
MaxEngines == 2

(* Program constants *)

\* def get_engine(max_retries: int = 3, ...)
DefaultMaxRetries == 3
\* def get_engine(..., backoff_seconds: float = 1.0)
DefaultBackoffSeconds == 1

Threads == {"t1", "t2"}

----------------------------------------------------------------------------
(* Python values *)

None == "None"
NoEngine == [id |-> 0, state |-> "none"]
NoFactory == [bind |-> NoEngine, by |-> "nobody"]
NoExc == [type |-> "None", attempt |-> 0]

\* bool(v) for an Optional[str]
Truthy(v) == v # None /\ v # ""

\* a or b
PyOr(a, b) == IF Truthy(a) THEN a ELSE b

EnvNames == {"NOVA_DATABASE_URL", "DATABASE_URL"}

\* os.getenv(name): None when the variable is not set
getenv(env, name) == env[name]

----------------------------------------------------------------------------
(* Exceptions.  A message is the sequence of its words.                    *)

ConfigMessage ==
    <<"Database", "URL", "not", "configured", ".", "Set", "NOVA_DATABASE_URL",
      "or", "DATABASE_URL", "in", "your", "environment", ".">>

NotInstalledMessage ==
    <<"SQLAlchemy", "is", "not", "installed", ".", "Install", "'sqlalchemy'",
      "to", "use", "the", "database", "layer", ".">>

ExhaustedMessage(max_retries) ==
    <<"Could", "not", "initialize", "database", "engine", "after",
      ToString(max_retries), "attempts">>

\* raise RuntimeError(msg) [from cause]
RuntimeError(msg, cause) ==
    [kind |-> "raise", type |-> "RuntimeError", msg |-> msg, cause |-> cause]

Return(v) == [kind |-> "return", value |-> v]

\* whether the words of phrase occur consecutively in msg
Mentions(msg, phrase) ==
    \E i \in 1..Len(msg) :
        /\ i + Len(phrase) - 1 <= Len(msg)
        /\ \A j \in 1..Len(phrase) : msg[i + j - 1] = phrase[j]

----------------------------------------------------------------------------
(* get_database_url *)

\* a plausible slip: the two environment variables consulted in the wrong order
get_database_url_env_swapped(settings_url, env) ==
    LET url1 == settings_url
        url2 == IF ~Truthy(url1)
                THEN PyOr(getenv(env, "DATABASE_URL"), getenv(env, "NOVA_DATABASE_URL"))
                ELSE url1
    IN  IF ~Truthy(url2) THEN RuntimeError(ConfigMessage, NoExc) ELSE Return(url2)

\* a plausible slip: "is None" tests instead of truthiness, so "" counts as set
get_database_url_is_none(settings_url, env) ==
    LET url1 == settings_url
        url2 == IF url1 = None
                THEN (IF getenv(env, "NOVA_DATABASE_URL") # None
                      THEN getenv(env, "NOVA_DATABASE_URL")
                      ELSE getenv(env, "DATABASE_URL"))
                ELSE url1
    IN  IF url2 = None THEN RuntimeError(ConfigMessage, NoExc) ELSE Return(url2)

\* a resolver without the final check: it returns whatever it found, None included
get_database_url_unchecked(settings_url, env) ==
    LET url1 == settings_url
        url2 == IF ~Truthy(url1)
                THEN PyOr(getenv(env, "NOVA_DATABASE_URL"), getenv(env, "DATABASE_URL"))
                ELSE url1
    IN  Return(url2)

get_database_url(settings_url, env) ==
    LET url1 == settings_url
        url2 == IF ~Truthy(url1)
                THEN PyOr(getenv(env, "NOVA_DATABASE_URL"), getenv(env, "DATABASE_URL"))
                ELSE url1
    IN  IF ~Truthy(url2) THEN RuntimeError(ConfigMessage, NoExc) ELSE Return(url2)

----------------------------------------------------------------------------
(* Objects *)

\* what one connect-and-probe attempt (lines 96-105) can do
AttemptOutcomes == {"ok", "create_fails", "connect_fails", "probe_fails"}

\* the state create_engine / engine.connect() / conn.execute leave the engine in
EngineStateAfter(outcome) ==
    CASE outcome = "ok"            -> "probed"
      [] outcome = "probe_fails"   -> "connected"
      [] outcome = "connect_fails" -> "created"

\* create_engine(db_url, pool_pre_ping=True) and the check that follows it:
\* the id-th engine object, in the state the attempt leaves it in
create_engine(id, outcome) == [id |-> id, state |-> EngineStateAfter(outcome)]

\* the exception an attempt raises
AttemptException(outcome, attempt) ==
    CASE outcome = "create_fails"  -> [type |-> "ArgumentError", attempt |-> attempt]
      [] outcome = "connect_fails" -> [type |-> "OperationalError", attempt |-> attempt]
      [] outcome = "probe_fails"   -> [type |-> "ProgrammingError", attempt |-> attempt]

NoSession == [bind |-> NoEngine, factory |-> NoFactory, open |-> FALSE, closes |-> 0]

\* sessionmaker(autocommit=False, autoflush=False, bind=engine), made by thread t
sessionmaker(engine, t) == [bind |-> engine, by |-> t]

\* _SESSION_LOCAL(): a new open session bound to the factory's engine
NewSession(factory) == [bind |-> factory.bind, factory |-> factory, open |-> TRUE, closes |-> 0]

\* db.close()
close(db) == [db EXCEPT !.open = FALSE, !.closes = @ + 1]

\* the ways a consumer leaves the generator suspended at its yield
ConsumerExits == {"next", "throw", "close"}

NoCall == [kind |-> "nocall"]
StopIteration == [kind |-> "stop"]
GeneratorClosed == [kind |-> "closed"]
ConsumerError == [kind |-> "raise", type |-> "ConsumerError", msg |-> <<"boom">>, cause |-> NoExc]

\* one entry of a call's log: what it did (e) and with which number (k)
Ev(e, k) == [e |-> e, k |-> k]

InitThread ==
    [pc |-> "idle", op |-> "none", max_retries |-> 0, backoff_seconds |-> 0,
     attempt |-> 0, db_url |-> None, last_exc |-> NoExc,
     ge_engine |-> NoEngine, gs_engine |-> NoEngine, db |-> NoSession,
     log |-> <<>>, ret |-> NoCall]

\* the call is over: its locals die; its outcome, its log and the URL it
\* resolved remain for inspection
Finish(rec, ret) ==
    [rec EXCEPT !.pc = "idle", !.ret = ret, !.attempt = 0,
                !.last_exc = NoExc, !.ge_engine = NoEngine, !.gs_engine = NoEngine]

\* get_engine returns v: to the caller, or into get_session at line 154
GeReturn(rec, v) ==
    IF rec.op = "get_engine"
    THEN Finish(rec, Return(v))
    ELSE [rec EXCEPT !.pc = "gs_check", !.gs_engine = v, !.attempt = 0,
                     !.last_exc = NoExc, !.ge_engine = NoEngine]

----------------------------------------------------------------------------
(* The pieces of get_engine and get_session that decide their behaviour *)

\* a plausible slip: the cache is never consulted
CacheHit_never(cached) == FALSE

\* line 84: if _ENGINE is not None
CacheHit(cached) == cached # NoEngine

\* a plausible slip: range(1, max_retries + 2)
InRange_off_by_one(attempt, max_retries) == 1 <= attempt /\ attempt <= max_retries + 1

\* line 95: attempt in range(1, max_retries + 1)
InRange(attempt, max_retries) == 1 <= attempt /\ attempt <= max_retries

\* a plausible slip: a failing probe is swallowed and the engine kept
AttemptSucceeds_probe_ignored(outcome) == outcome \in {"ok", "probe_fails"}

\* lines 97-105 complete without raising
AttemptSucceeds(outcome) == outcome = "ok"

\* a plausible slip: a constant delay
Backoff_constant(backoff_seconds, attempt) == backoff_seconds

\* line 126: backoff_seconds * attempt
Backoff(backoff_seconds, attempt) == backoff_seconds * attempt

\* a plausible slip: sleeping after the final failed attempt as well
SleepsAfter_always(attempt, max_retries) == attempt <= max_retries

\* line 125: if attempt < max_retries
SleepsAfter(attempt, max_retries) == attempt < max_retries

\* a plausible slip: a dedicated exception class for the exhausted retries
RaiseExhausted_own_type(max_retries, last_exc) ==
    [kind |-> "raise", type |-> "PersistenceUnavailable",
     msg |-> ExhaustedMessage(max_retries), cause |-> last_exc]

\* lines 128-130: raise RuntimeError(...) from last_exc
RaiseExhausted(max_retries, last_exc) ==
    RuntimeError(ExhaustedMessage(max_retries), last_exc)

\* a plausible slip: close() after the yield without try/finally
RunFinally_no_finally(how, db) == IF how = "next" THEN close(db) ELSE db

\* lines 164-167: try: yield db / finally: db.close()
RunFinally(how, db) == close(db)

\* what the generator's caller sees once the finally block has run
GeneratorOutcome(how) ==
    CASE how = "next"  -> StopIteration
      [] how = "throw" -> ConsumerError
      [] how = "close" -> GeneratorClosed

----------------------------------------------------------------------------
(* Configuration: settings and environment, as the tests set them *)

UrlValues ==
    {None, "", "postgresql://settings-db/test", "postgresql://env-nova/test",
     "postgresql://env-generic/test"}

\* the values NOVA_DATABASE_URL takes around calls of get_engine in the tests
EngineUrlValues == {None, "sqlite:///:memory:"}

NoUrlCall == [called |-> FALSE, settings |-> None,
              env |-> [n \in EnvNames |-> None], out |-> NoCall]

\* no call is in progress and no generator is suspended
Quiescent == \A t \in Threads : th[t].pc = "idle"

\* monkeypatch.setattr(settings, "database_url", v, raising=False)
SetSettings(v) ==
    /\ Quiescent
    /\ settings_database_url # v
    /\ settings_database_url' = v
    /\ UNCHANGED <<http, orm, environ, sqlalchemy_installed, ENGINE, SESSION_LOCAL, engines,
                   engine_writes, factory_writes, th, url_out>>

\* monkeypatch.setenv(name, v) / monkeypatch.delenv(name) when v is None
SetEnv(name, v) ==
    /\ Quiescent
    /\ environ[name] # v
    /\ environ' = [environ EXCEPT ![name] = v]
    /\ UNCHANGED <<http, orm, settings_database_url, sqlalchemy_installed, ENGINE, SESSION_LOCAL,
                   engines, engine_writes, factory_writes, th, url_out>>

\* url = get_database_url(), called directly as the tests do
CallGetDatabaseUrl ==
    /\ Quiescent
    /\ url_out' = [called |-> TRUE, settings |-> settings_database_url, env |-> environ,
                   out |-> get_database_url(settings_database_url, environ)]
    /\ UNCHANGED <<http, orm, settings_database_url, environ, sqlalchemy_installed, ENGINE,
                   SESSION_LOCAL, engines, engine_writes, factory_writes, th>>

\* _reset_db_cache() of the tests, run between calls
Reset ==
    /\ Quiescent
    /\ ENGINE' = NoEngine
    /\ SESSION_LOCAL' = NoFactory
    /\ engine_writes' = 0
    /\ factory_writes' = 0
    /\ th' = [t \in Threads |-> InitThread]
    /\ UNCHANGED <<http, orm, settings_database_url, environ, sqlalchemy_installed, engines, url_out>>

----------------------------------------------------------------------------
(* get_engine *)

shared == <<settings_database_url, environ, sqlalchemy_installed, url_out>>

\* a caller enters get_engine(max_retries, backoff_seconds)
CallGetEngine(t, max_retries, backoff_seconds) ==
    /\ th[t].pc = "idle"
    /\ th' = [th EXCEPT ![t] =
                [InitThread EXCEPT !.pc = "ge_check", !.op = "get_engine",
                                   !.max_retries = max_retries,
                                   !.backoff_seconds = backoff_seconds]]
    /\ UNCHANGED <<http, orm, shared, ENGINE, SESSION_LOCAL, engines, engine_writes, factory_writes>>

\* lines 84-90: the cached engine is returned; without SQLAlchemy the call fails
GE_Check(t) ==
    /\ th[t].pc = "ge_check"
    /\ LET rec == [th[t] EXCEPT !.log = Append(@, Ev("check", ENGINE.id))]
       IN  th' = [th EXCEPT ![t] =
                    IF CacheHit(ENGINE) THEN GeReturn(rec, ENGINE)
                    ELSE IF ~sqlalchemy_installed
                         THEN Finish(rec, RuntimeError(NotInstalledMessage, NoExc))
                         ELSE [rec EXCEPT !.pc = "ge_url"]]
    /\ UNCHANGED <<http, orm, shared, ENGINE, SESSION_LOCAL, engines, engine_writes, factory_writes>>

\* lines 92-95: resolve the URL, enter the retry loop (or fall through an empty range)
GE_Url(t) ==
    /\ th[t].pc = "ge_url"
    /\ LET r   == get_database_url(settings_database_url, environ)
           rec == [th[t] EXCEPT !.log = Append(@, Ev("resolve", 0))]
       IN  th' = [th EXCEPT ![t] =
                    IF r.kind = "raise" THEN Finish(rec, r)
                    ELSE IF InRange(1, rec.max_retries)
                         THEN [rec EXCEPT !.pc = "ge_try", !.db_url = r.value,
                                          !.last_exc = NoExc, !.attempt = 1]
                         ELSE Finish([rec EXCEPT !.db_url = r.value],
                                     RaiseExhausted(rec.max_retries, NoExc))]
    /\ UNCHANGED <<http, orm, shared, ENGINE, SESSION_LOCAL, engines, engine_writes, factory_writes>>

\* an attempt that assigns _ENGINE as soon as the engine is created, before the probe
GE_Try_caches_before_probe(t, outcome) ==
    /\ th[t].pc = "ge_try"
    /\ outcome # "create_fails" => engines < MaxEngines
    /\ LET me      == th[t]
           created == outcome # "create_fails"
           local   == IF created THEN create_engine(engines + 1, outcome)
                      ELSE me.ge_engine
           exc     == AttemptException(outcome, me.attempt)
           failed  == Append(me.log, Ev("attempt_failed", me.attempt))
           slept   == IF SleepsAfter(me.attempt, me.max_retries)
                      THEN Append(failed, Ev("sleep", Backoff(me.backoff_seconds, me.attempt)))
                      ELSE failed
       IN  /\ engines' = IF created THEN engines + 1 ELSE engines
           /\ ENGINE' = IF created THEN local ELSE ENGINE
           /\ th' = [th EXCEPT ![t] =
                       IF AttemptSucceeds(outcome)
                       THEN [me EXCEPT !.pc = "ge_cache", !.ge_engine = local,
                                       !.log = Append(@, Ev("attempt_ok", me.attempt))]
                       ELSE IF InRange(me.attempt + 1, me.max_retries)
                            THEN [me EXCEPT !.ge_engine = local, !.last_exc = exc,
                                            !.log = slept, !.attempt = @ + 1]
                            ELSE Finish([me EXCEPT !.log = slept],
                                        RaiseExhausted(me.max_retries, exc))]
    /\ UNCHANGED <<http, orm, shared, SESSION_LOCAL, engine_writes, factory_writes>>

\* lines 96-105 and 116-130: one attempt; on failure the handler records the
\* exception, sleeps when another attempt follows, and the loop goes on or ends
GE_Try(t, outcome) ==
    /\ th[t].pc = "ge_try"
    /\ outcome # "create_fails" => engines < MaxEngines
    /\ LET me      == th[t]
           created == outcome # "create_fails"
           local   == IF created THEN create_engine(engines + 1, outcome)
                      ELSE me.ge_engine
           exc     == AttemptException(outcome, me.attempt)
           failed  == Append(me.log, Ev("attempt_failed", me.attempt))
           slept   == IF SleepsAfter(me.attempt, me.max_retries)
                      THEN Append(failed, Ev("sleep", Backoff(me.backoff_seconds, me.attempt)))
                      ELSE failed
       IN  /\ engines' = IF created THEN engines + 1 ELSE engines
           /\ th' = [th EXCEPT ![t] =
                       IF AttemptSucceeds(outcome)
                       THEN [me EXCEPT !.pc = "ge_cache", !.ge_engine = local,
                                       !.log = Append(@, Ev("attempt_ok", me.attempt))]
                       ELSE IF InRange(me.attempt + 1, me.max_retries)
                            THEN [me EXCEPT !.ge_engine = local, !.last_exc = exc,
                                            !.log = slept, !.attempt = @ + 1]
                            ELSE Finish([me EXCEPT !.log = slept],
                                        RaiseExhausted(me.max_retries, exc))]
    /\ UNCHANGED <<http, orm, shared, ENGINE, SESSION_LOCAL, engine_writes, factory_writes>>

\* line 107: _ENGINE = engine
GE_Cache(t) ==
    /\ th[t].pc = "ge_cache"
    /\ ENGINE' = th[t].ge_engine
    /\ engine_writes' = engine_writes + 1
    /\ th' = [th EXCEPT ![t].pc = "ge_ret"]
    /\ UNCHANGED <<http, orm, shared, SESSION_LOCAL, engines, factory_writes>>

\* line 115: return _ENGINE (the global is read again)
GE_Ret(t) ==
    /\ th[t].pc = "ge_ret"
    /\ th' = [th EXCEPT ![t] = GeReturn(th[t], ENGINE)]
    /\ UNCHANGED <<http, orm, shared, ENGINE, SESSION_LOCAL, engines, engine_writes, factory_writes>>

----------------------------------------------------------------------------
(* get_session *)

\* lines 149-154: the generator is started; engine = get_engine() with the defaults
CallGetSession(t) ==
    /\ th[t].pc = "idle"
    /\ LET rec == [InitThread EXCEPT !.op = "get_session",
                                     !.max_retries = DefaultMaxRetries,
                                     !.backoff_seconds = DefaultBackoffSeconds]
       IN  th' = [th EXCEPT ![t] =
                    IF ~sqlalchemy_installed
                    THEN Finish(rec, RuntimeError(NotInstalledMessage, NoExc))
                    ELSE [rec EXCEPT !.pc = "ge_check"]]
    /\ UNCHANGED <<http, orm, shared, ENGINE, SESSION_LOCAL, engines, engine_writes, factory_writes>>

\* line 156: if _SESSION_LOCAL is None
GS_Check(t) ==
    /\ th[t].pc = "gs_check"
    /\ th' = [th EXCEPT ![t].pc = IF SESSION_LOCAL = NoFactory THEN "gs_make" ELSE "gs_new"]
    /\ UNCHANGED <<http, orm, shared, ENGINE, SESSION_LOCAL, engines, engine_writes, factory_writes>>

\* lines 157-161: _SESSION_LOCAL = sessionmaker(..., bind=engine)
GS_Make(t) ==
    /\ th[t].pc = "gs_make"
    /\ SESSION_LOCAL' = sessionmaker(th[t].gs_engine, t)
    /\ factory_writes' = factory_writes + 1
    /\ th' = [th EXCEPT ![t].pc = "gs_new"]
    /\ UNCHANGED <<http, orm, shared, ENGINE, engines, engine_writes>>

\* lines 163-165: db = _SESSION_LOCAL(); yield db
GS_New(t) ==
    /\ th[t].pc = "gs_new"
    /\ th' = [th EXCEPT ![t].pc = "gs_yielded", ![t].db = NewSession(SESSION_LOCAL),
                        ![t].log = Append(@, Ev("yield", SESSION_LOCAL.bind.id))]
    /\ UNCHANGED <<http, orm, shared, ENGINE, SESSION_LOCAL, engines, engine_writes, factory_writes>>

\* lines 165-167: the consumer resumes, throws into or closes the generator;
\* the finally block runs and the generator ends
Consumer(t, how) ==
    /\ th[t].pc = "gs_yielded"
    /\ th' = [th EXCEPT ![t] =
                Finish([th[t] EXCEPT !.db = RunFinally(how, @),
                                     !.log = Append(@, Ev(how, 0))],
                       GeneratorOutcome(how))]
    /\ UNCHANGED <<http, orm, shared, ENGINE, SESSION_LOCAL, engines, engine_writes, factory_writes>>

----------------------------------------------------------------------------
(* The HTTP surface: app/main.py, app/routers/core.py, app/models/base.py, *)
(* app/utils/meta.py.  Handlers are coroutines without an await between    *)
(* reading the clock and returning, so serving one request is one step.    *)

\* largest reading of the wall clock in one run
MaxClock == 2

(* Python values of this part *)

\* a key that a dict does not hold
Absent == "<absent>"

\* the keys of settings.version that the service reads
VersionKeys == {"name", "version", "build", "build_date", "api_schema_version",
                "master_doc_version"}

\* keys subscripted at import, when the FastAPI application is built
RequiredVersionKeys == {"name", "version"}

\* the value each key has when the version file sets it
ConfiguredVersion ==
    [name |-> "Nova", version |-> "0.1.0", build |-> "dev", build_date |-> "2025-01-01",
     api_schema_version |-> "v2", master_doc_version |-> "1.0"]

\* the version dicts a running service can hold
VersionConfigs ==
    {v \in [VersionKeys -> {Absent} \cup {ConfiguredVersion[k] : k \in VersionKeys}] :
        /\ \A k \in VersionKeys : v[k] \in {Absent, ConfiguredVersion[k]}
        /\ \A k \in RequiredVersionKeys : v[k] # Absent}

\* settings.env
SettingsEnv == "dev"

\* d.get(key, default)
get(d, key, default) == IF d[key] = Absent THEN default ELSE d[key]

\* a datetime object, and the ISO-8601 string a JSON encoder writes for it
Datetime(t) == [type |-> "datetime", t |-> t]
IsoString(t) == [type |-> "str", t |-> t]
NoTimestamp == [type |-> "None", t |-> 0]

\* a reading that lags the clock
now_stale(wall_clock) == Datetime(IF wall_clock > 0 THEN wall_clock - 1 ELSE 0)

\* datetime.now(timezone.utc): the wall clock as it reads at the call
now(wall_clock) == Datetime(wall_clock)

\* str(n) of a non-negative int, as a sequence of digit characters
DigitChars == <<"0", "1", "2", "3", "4", "5", "6", "7", "8", "9">>
RECURSIVE str(_)
str(n) == IF n < 10 THEN <<DigitChars[n + 1]>>
          ELSE str(n \div 10) \o <<DigitChars[(n % 10) + 1]>>

\* f"http_{status_code}"
HttpCode(status_code) == <<"http_">> \o str(status_code)

(* Exceptions and their classes *)

\* __mro__ of the exception classes that occur, up to Exception
Mro ==
    [FastAPIHTTPException |-> <<"FastAPIHTTPException", "StarletteHTTPException", "Exception">>,
     StarletteHTTPException |-> <<"StarletteHTTPException", "Exception">>,
     RuntimeError |-> <<"RuntimeError", "Exception">>,
     ValueError |-> <<"ValueError", "Exception">>,
     KeyError |-> <<"KeyError", "LookupError", "Exception">>,
     TypeError |-> <<"TypeError", "Exception">>]

Exc(class, status_code, detail) == [class |-> class, status_code |-> status_code, detail |-> detail]

\* fastapi.HTTPException(status_code=s, detail=d), the class main.py imports
HTTPException(status_code, detail) == Exc("FastAPIHTTPException", status_code, detail)

\* starlette.exceptions.HTTPException, which the router raises for 404 and 405
StarletteHTTPException(status_code, detail) == Exc("StarletteHTTPException", status_code, detail)

\* any other exception; detail holds its message
Exception(class, message) == Exc(class, 0, message)

NoException == Exc("None", 0, "")

Raise(exc) == [kind |-> "raise", exc |-> exc]

(* app/models/base.py *)

Meta(timestamp, request_id, nova_version, build, api_schema_version, master_doc_version) ==
    [timestamp |-> timestamp, request_id |-> request_id, nova_version |-> nova_version,
     build |-> build, api_schema_version |-> api_schema_version,
     master_doc_version |-> master_doc_version]

BaseResponse(status, data, meta) == [status |-> status, data |-> data, meta |-> meta]

ErrorInfo(code, message) == [code |-> code, message |-> message]

ErrorResponse(error, meta) == [error |-> error, meta |-> meta]

\* model.model_dump(): python mode, a dict whose datetime fields stay datetime objects
model_dump(model) == model

\* app/utils/meta.py
build_meta(request_id, wall_clock, version) ==
    Meta(now(wall_clock), request_id, get(version, "version", None), get(version, "build", None),
         get(version, "api_schema_version", None), get(version, "master_doc_version", None))

(* Responses *)

Response(status_code, media_type, body) ==
    [kind |-> "response", status_code |-> status_code, media_type |-> media_type, body |-> body]

\* what json.dumps accepts: str, numbers, None, dicts and lists of these; no datetime
JsonSerializable(content) == content.meta.timestamp.type # "datetime"

JsonTypeError == Exception("TypeError", "Object of type datetime is not JSON serializable")

\* JSONResponse(status_code=.., content=..): the body is rendered by json.dumps in the
\* constructor
JSONResponse(status_code, content) ==
    IF JsonSerializable(content)
    THEN Response(status_code, "application/json", content)
    ELSE Raise(JsonTypeError)

\* a route declared with response_model=BaseResponse: the returned model is validated and
\* encoded field by field, datetimes as ISO strings
SerializeModel(model) ==
    Response(200, "application/json", [model EXCEPT !.meta.timestamp = IsoString(@.t)])

\* a route returning a plain dict of strings and ints
SerializeDict(d) == Response(200, "application/json", d)

(* Exception handlers of app/main.py *)

\* @app.exception_handler(HTTPException)
http_exception_handler(exc, wall_clock, version) ==
    LET meta == Meta(now(wall_clock), None, get(version, "version", None),
                     get(version, "build", None), get(version, "api_schema_version", None),
                     get(version, "master_doc_version", None))
        error == ErrorInfo(HttpCode(exc.status_code), PyOr(exc.detail, "HTTP error"))
    IN  JSONResponse(exc.status_code, model_dump(ErrorResponse(error, meta)))

\* @app.exception_handler(Exception)
unhandled_exception_handler(exc, wall_clock, version) ==
    LET meta == Meta(now(wall_clock), None, get(version, "version", None),
                     get(version, "build", None), get(version, "api_schema_version", None),
                     get(version, "master_doc_version", None))
        error == ErrorInfo(<<"internal_error">>, "An unexpected error occurred.")
    IN  JSONResponse(500, model_dump(ErrorResponse(error, meta)))

\* the handler FastAPI() installs for starlette's HTTPException
default_http_exception_handler(exc) ==
    Response(exc.status_code, "application/json", [detail |-> exc.detail])

\* what the server sends when the application itself raises
ServerFallback == Response(500, "text/plain", [text |-> "Internal Server Error"])

\* handlers by exception class: the two main.py registers and the one FastAPI() installs;
\* the handler for Exception is run by the outermost (server error) middleware
ExceptionHandlers ==
    [FastAPIHTTPException |-> "http_exception_handler",
     StarletteHTTPException |-> "default_http_exception_handler",
     Exception |-> "unhandled_exception_handler"]

\* the first class of the exception's __mro__ that has a handler
RECURSIVE LookupHandler(_)
LookupHandler(mro) ==
    IF mro = <<>> THEN "none"
    ELSE IF Head(mro) \in DOMAIN ExceptionHandlers THEN ExceptionHandlers[Head(mro)]
    ELSE LookupHandler(Tail(mro))

\* the server error middleware: the Exception handler answers; if it raises too, the
\* server answers
ServerErrorMiddleware(exc, wall_clock, version) ==
    LET r == unhandled_exception_handler(exc, wall_clock, version)
    IN  IF r.kind = "response" THEN r ELSE ServerFallback

\* the exception middleware: the handler found for the class answers; what it raises, and
\* what has no handler below Exception, goes on to the server error middleware
ExceptionMiddleware(exc, wall_clock, version) ==
    LET h == LookupHandler(Mro[exc.class])
        r == IF h = "http_exception_handler" THEN http_exception_handler(exc, wall_clock, version)
             ELSE IF h = "default_http_exception_handler" THEN default_http_exception_handler(exc)
             ELSE Raise(exc)
    IN  IF r.kind = "response" THEN r ELSE ServerErrorMiddleware(r.exc, wall_clock, version)

\* the timestamps of the Meta objects built while an exception is answered, in order: one
\* by each handler of main.py that runs
MetasBuiltFor(exc, wall_clock, version) ==
    LET h == LookupHandler(Mro[exc.class])
    IN  IF h = "http_exception_handler"
        THEN IF http_exception_handler(exc, wall_clock, version).kind = "response"
             THEN <<now(wall_clock)>>
             ELSE <<now(wall_clock), now(wall_clock)>>
        ELSE IF h = "default_http_exception_handler" THEN <<>>
        ELSE <<now(wall_clock)>>

(* Routes *)

RawRoutes == {"/", "/status", "/version"}
EnvelopeRoutes == {"/health", "/actions/handshake"}
\* routes the error tests attach: one raises HTTPException, one raises something else
RaisingRoutes == {"/test-http-error", "/test-internal-error"}
Routes == RawRoutes \cup EnvelopeRoutes \cup RaisingRoutes

\* what the raising routes are written to raise
StatusCodes == {404, 503}
Details == {"", "Not Found"}
RaisedHttp == {HTTPException(s, d) : s \in StatusCodes, d \in Details}
RaisedOther == {Exception("RuntimeError", "boom"), Exception("ValueError", "secret")}

NoRequest == [path |-> "", method |-> "", date |-> 0, raises |-> NoException]
\* the requests sent: every route with a Date header of either end of the clock's range,
\* a method no route has, a path no route has, and the raising routes
Requests ==
    {[path |-> p, method |-> "GET", date |-> d, raises |-> NoException] :
        p \in RawRoutes \cup EnvelopeRoutes, d \in {0, MaxClock}}
    \cup {[path |-> "/health", method |-> "POST", date |-> 0, raises |-> NoException],
          [path |-> "/missing", method |-> "GET", date |-> 0, raises |-> NoException]}
    \cup {[path |-> "/test-http-error", method |-> "GET", date |-> 0, raises |-> e] :
            e \in RaisedHttp}
    \cup {[path |-> "/test-internal-error", method |-> "GET", date |-> 0, raises |-> e] :
            e \in RaisedOther}

(* Endpoints *)

\* d[key] of a dict that may lack the key
KeyError(key) == Exception("KeyError", key)

\* GET /
root(version) ==
    IF version["build"] = Absent THEN Raise(KeyError("build"))
    ELSE Return([system |-> version["name"], version |-> version["version"],
                 build |-> version["build"], environment |-> SettingsEnv,
                 status |-> "online"])

\* GET /health
health(wall_clock, version) ==
    LET meta == Meta(now(wall_clock), None, get(version, "version", None),
                     get(version, "build", None), get(version, "api_schema_version", None),
                     get(version, "master_doc_version", None))
    IN  Return(BaseResponse("ok", [message |-> "healthy"], meta))

\* GET /status
status(wall_clock, started, version) ==
    IF version["build"] = Absent THEN Raise(KeyError("build"))
    ELSE Return([system |-> version["name"], version |-> version["version"],
                 build |-> version["build"], environment |-> SettingsEnv,
                 status |-> "online", uptime_seconds |-> wall_clock - started])

\* GET /actions/handshake
actions_handshake(wall_clock, version) ==
    LET meta == Meta(now(wall_clock), None, get(version, "version", None),
                     get(version, "build", None), get(version, "api_schema_version", None),
                     get(version, "master_doc_version", None))
        data == [nova_version |-> get(version, "version", None),
                 master_doc_version |-> get(version, "master_doc_version", "unknown"),
                 supported_domains |-> <<"finance", "health", "training", "protocols",
                                         "automation", "system">>]
    IN  Return(BaseResponse("ok", data, meta))

\* a /version whose defaults are all "unknown"
version_all_unknown(info) ==
    Return([nova_version |-> get(info, "version", "unknown"),
            build_date |-> get(info, "build_date", "unknown"),
            api_schema_version |-> get(info, "api_schema_version", "unknown"),
            master_doc_version |-> get(info, "master_doc_version", "unknown")])

\* GET /version
version(info) ==
    Return([nova_version |-> get(info, "version", "unknown"),
            build_date |-> get(info, "build_date", "unknown"),
            api_schema_version |-> get(info, "api_schema_version", "v1"),
            master_doc_version |-> get(info, "master_doc_version", "unknown")])

\* the router: no route for the path is 404, a route without the method is 405
Endpoint(req, wall_clock, started, info) ==
    IF req.path \notin Routes THEN Raise(StarletteHTTPException(404, "Not Found"))
    ELSE IF req.method # "GET" THEN Raise(StarletteHTTPException(405, "Method Not Allowed"))
    ELSE IF req.path = "/" THEN root(info)
    ELSE IF req.path = "/health" THEN health(wall_clock, info)
    ELSE IF req.path = "/status" THEN status(wall_clock, started, info)
    ELSE IF req.path = "/version" THEN version(info)
    ELSE IF req.path = "/actions/handshake" THEN actions_handshake(wall_clock, info)
    ELSE Raise(req.raises)

\* the application: the endpoint's return value is serialized, its exception is answered
\* by the middleware stack
App(req, wall_clock, started, info) ==
    LET out == Endpoint(req, wall_clock, started, info)
    IN  IF out.kind = "raise" THEN ExceptionMiddleware(out.exc, wall_clock, info)
        ELSE IF req.path \in EnvelopeRoutes THEN SerializeModel(out.value)
        ELSE SerializeDict(out.value)

\* the Meta timestamps built while the request is served, in order
MetasBuilt(req, wall_clock, started, info) ==
    LET out == Endpoint(req, wall_clock, started, info)
    IN  IF out.kind = "raise" THEN MetasBuiltFor(out.exc, wall_clock, info)
        ELSE IF req.path \in EnvelopeRoutes THEN <<out.value.meta.timestamp>>
        ELSE <<>>

(* Steps of the service *)

NoExchange ==
    [request |-> NoRequest, at |-> 0, raised |-> NoException, built |-> <<>>,
     response |-> Response(0, "", [text |-> ""])]

\* time passes
Tick ==
    /\ clock < MaxClock
    /\ clock' = clock + 1
    /\ UNCHANGED <<persistence, orm, version_info, start_time, exchange, prev_timestamp>>

\* the system clock is set back (clock synchronisation, an operator)
ClockSetBack ==
    /\ clock > 0
    /\ clock' = clock - 1
    /\ UNCHANGED <<persistence, orm, version_info, start_time, exchange, prev_timestamp>>

\* the timestamp of the last Meta handed out: in a response body, or by build_meta
LastStamp(ex, prev) ==
    IF ex.request = NoRequest
    THEN IF ex.built = <<>> THEN prev ELSE ex.built[1]
    ELSE IF "meta" \in DOMAIN ex.response.body
         THEN Datetime(ex.response.body.meta.timestamp.t)
         ELSE prev

\* one request is served
Serve(req) ==
    LET out == Endpoint(req, clock, start_time, version_info)
    IN  /\ exchange' = [request |-> req, at |-> clock,
                        raised |-> IF out.kind = "raise" THEN out.exc ELSE NoException,
                        built |-> MetasBuilt(req, clock, start_time, version_info),
                        response |-> App(req, clock, start_time, version_info)]
        /\ prev_timestamp' = LastStamp(exchange, prev_timestamp)
        /\ UNCHANGED <<persistence, orm, version_info, clock, start_time>>

\* build_meta(request_id) called on its own
CallBuildMeta(request_id) ==
    /\ exchange' = [NoExchange EXCEPT !.at = clock,
                        !.built = <<build_meta(request_id, clock, version_info).timestamp>>]
    /\ prev_timestamp' = LastStamp(exchange, prev_timestamp)
    /\ UNCHANGED <<persistence, orm, version_info, clock, start_time>>

\* the service after import
HttpAtImport ==
    /\ start_time = clock
    /\ exchange = NoExchange
    /\ prev_timestamp = NoTimestamp

----------------------------------------------------------------------------
(* The record store as the model tests use it: a session made for a fresh  *)
(* in-memory engine, records added, committed and queried by external_id.  *)
(* The record classes (app/db/models) are described by the specification:  *)
(* an id assigned by the store on insert, no uniqueness on external_id.    *)

\* number of rows the store may hold in one run
MaxRows == 2

Kinds == {"Account", "Budget", "Transaction", "RecurringItem"}
Sources == {"lunchmoney", "manual"}
ExternalIds == {"acc_123", "acc_456"}
Currencies == {"USD", "EUR"}

\* Kind(source=.., external_id=.., currency=..): a new object has no id yet
Record(kind, source, external_id, currency) ==
    [kind |-> kind, id |-> 0, source |-> source, external_id |-> external_id,
     currency |-> currency]

NewRecords ==
    {Record(k, s, e, c) : k \in Kinds, s \in Sources, e \in ExternalIds, c \in Currencies}

RowCount(tbls) == Len(tbls["Account"]) + Len(tbls["Budget"]) + Len(tbls["Transaction"])
                  + Len(tbls["RecurringItem"])

\* INSERT: the store assigns the next serial id of the table
Insert(table, rec) == Append(table, [rec EXCEPT !.id = Len(table) + 1])

\* a filter that matches every row
filter_by_nothing(table, external_id) == table

\* query(Kind).filter_by(external_id=..)
filter_by(table, external_id) ==
    LET Matches(row) == row.external_id = external_id
    IN  SelectSeq(table, Matches)

\* .one(): the only row, or an error when there is none or more than one
one(rows) ==
    IF Len(rows) = 1 THEN Return(rows[1])
    ELSE IF Len(rows) = 0 THEN Raise(Exception("NoResultFound", "No row was found"))
    ELSE Raise(Exception("MultipleResultsFound", "Multiple rows were found"))

NoSessionState == [new |-> <<>>, persisted |-> <<>>]
NoFetch == [called |-> FALSE, kind |-> "", external_id |-> "", out |-> Return(Record("", "", "", ""))]

OrmEmpty ==
    /\ tables = [k \in Kinds |-> <<>>]
    /\ pending = NoSessionState
    /\ fetched = NoFetch

\* session.add(rec)
Add(rec) ==
    /\ pending.new = <<>>
    /\ RowCount(tables) < MaxRows
    /\ pending' = [pending EXCEPT !.new = <<rec>>]
    /\ fetched' = NoFetch
    /\ UNCHANGED <<persistence, http, tables>>

\* session.commit(); session.refresh(rec): the row is inserted and the object takes the
\* stored values
Commit ==
    /\ pending.new # <<>>
    /\ LET rec == pending.new[1]
           table == Insert(tables[rec.kind], rec)
       IN  /\ tables' = [tables EXCEPT ![rec.kind] = table]
           /\ pending' = [new |-> <<>>,
                          persisted |-> <<[set |-> rec, row |-> table[Len(table)]]>>]
    /\ UNCHANGED <<persistence, http, fetched>>

\* fetched = session.query(Kind).filter_by(external_id=..).one()
Query(kind, external_id) ==
    /\ pending.new = <<>>
    /\ fetched' = [called |-> TRUE, kind |-> kind, external_id |-> external_id,
                   out |-> one(filter_by(tables[kind], external_id))]
    /\ UNCHANGED <<persistence, http, tables, pending>>

\* a new test: _make_engine_sqlite_memory and Base.metadata.create_all give an empty store
NewStore ==
    /\ RowCount(tables) > 0
    /\ tables' = [k \in Kinds |-> <<>>]
    /\ pending' = NoSessionState
    /\ fetched' = NoFetch
    /\ UNCHANGED <<persistence, http>>

----------------------------------------------------------------------------
(* Specifications *)

InitCaches ==
    /\ ENGINE = NoEngine
    /\ SESSION_LOCAL = NoFactory
    /\ engines = 0
    /\ engine_writes = 0
    /\ factory_writes = 0
    /\ th = [t \in Threads |-> InitThread]
    /\ url_out = NoUrlCall

\* the HTTP surface and the store while the persistence lifecycle is exercised
OtherPartsAtImport ==
    /\ version_info = ConfiguredVersion
    /\ clock = 0
    /\ HttpAtImport
    /\ OrmEmpty

\* the persistence lifecycle while the other parts are exercised
PersistenceAtImport ==
    /\ settings_database_url = None
    /\ environ = [n \in EnvNames |-> None]
    /\ sqlalchemy_installed = TRUE
    /\ InitCaches

\* the process after import, before any call, as the engine tests configure it
Init ==
    /\ settings_database_url = None
    /\ environ \in {[n \in EnvNames |-> IF n = "NOVA_DATABASE_URL" THEN v ELSE None] :
                    v \in EngineUrlValues}
    /\ sqlalchemy_installed \in BOOLEAN
    /\ InitCaches
    /\ OtherPartsAtImport

Next ==
    \/ \E v \in EngineUrlValues : SetEnv("NOVA_DATABASE_URL", v)
    \/ Reset
    \/ \E t \in Threads, m \in (-1)..MaxRetries, b \in 1..MaxBackoff : CallGetEngine(t, m, b)
    \/ \E t \in Threads : GE_Check(t)
    \/ \E t \in Threads : GE_Url(t)
    \/ \E t \in Threads, o \in AttemptOutcomes : GE_Try(t, o)
    \/ \E t \in Threads : GE_Cache(t)
    \/ \E t \in Threads : GE_Ret(t)
    \/ \E t \in Threads : CallGetSession(t)
    \/ \E t \in Threads : GS_Check(t)
    \/ \E t \in Threads : GS_Make(t)
    \/ \E t \in Threads : GS_New(t)
    \/ \E t \in Threads, how \in ConsumerExits : Consumer(t, how)

Spec == Init /\ [][Next]_vars

\* get_database_url alone, over every combination of the three sources
UrlInit ==
    /\ settings_database_url \in UrlValues
    /\ environ \in [EnvNames -> UrlValues]
    /\ sqlalchemy_installed = TRUE
    /\ InitCaches
    /\ OtherPartsAtImport

UrlNext ==
    \/ \E v \in UrlValues : SetSettings(v)
    \/ \E n \in EnvNames, v \in UrlValues : SetEnv(n, v)
    \/ CallGetDatabaseUrl

UrlSpec == UrlInit /\ [][UrlNext]_vars

\* the HTTP surface alone: any version file, any requests, a wall clock that may be set back
HttpInit ==
    /\ version_info \in VersionConfigs
    /\ clock \in 0..MaxClock
    /\ HttpAtImport
    /\ PersistenceAtImport
    /\ OrmEmpty

HttpNext ==
    \/ Tick
    \/ ClockSetBack
    \/ \E req \in Requests : Serve(req)
    \/ \E id \in {None, "req-1"} : CallBuildMeta(id)

HttpSpec == HttpInit /\ [][HttpNext]_vars

\* the record store alone, driven as the model tests drive it
RecordInit ==
    /\ OrmEmpty
    /\ PersistenceAtImport
    /\ version_info = ConfiguredVersion
    /\ clock = 0
    /\ HttpAtImport

RecordNext ==
    \/ \E rec \in NewRecords : Add(rec)
    \/ Commit
    \/ \E k \in Kinds, e \in ExternalIds : Query(k, e)
    \/ NewStore

RecordSpec == RecordInit /\ [][RecordNext]_vars

----------------------------------------------------------------------------
(* Reading a call's log *)

AttemptEvents == {"attempt_ok", "attempt_failed"}
InitEvents == {"resolve", "attempt_ok", "attempt_failed", "sleep"}

\* the positions of log whose event is one of es
Positions(log, es) == {i \in 1..Len(log) : log[i].e \in es}

\* the call went past the cache check and resolved a URL
Resolved(rec) == Positions(rec.log, {"resolve"}) # {}

\* the call found the pool cached at line 84
SawCachedPool(rec) == Len(rec.log) >= 1 /\ rec.log[1].e = "check" /\ rec.log[1].k # 0

\* the call is over and raised
Raised(rec) == rec.pc = "idle" /\ rec.ret.kind = "raise"

\* the call failed because no connection string could be resolved
ConfigFailure(rec) == Raised(rec) /\ Resolved(rec) /\ rec.db_url = None

\* the call failed in get_engine after its retry loop ran out of attempts
ExhaustionFailure(rec) ==
    /\ Raised(rec)
    /\ Resolved(rec)
    /\ rec.db_url # None
    /\ Positions(rec.log, {"attempt_ok"}) = {}

----------------------------------------------------------------------------
(* Properties of get_database_url, checked under UrlSpec *)

NotConfigured == <<"not", "configured">>

\* C1: get_database_url returns settings.database_url when that is non-empty,
\* otherwise NOVA_DATABASE_URL when that is non-empty, otherwise DATABASE_URL;
\* a lower-priority source is never returned while a higher one is non-empty.
C1_PriorityOrder ==
    url_out.called =>
        LET s == url_out.settings
            n == url_out.env["NOVA_DATABASE_URL"]
            d == url_out.env["DATABASE_URL"]
        IN  /\ Truthy(s) => url_out.out = Return(s)
            /\ ~Truthy(s) /\ Truthy(n) => url_out.out = Return(n)
            /\ ~Truthy(s) /\ ~Truthy(n) /\ Truthy(d) => url_out.out = Return(d)

C1_Witness ==
    /\ url_out.called
    /\ url_out.settings = ""
    /\ url_out.env["NOVA_DATABASE_URL"] = "postgresql://env-nova/test"
    /\ url_out.env["DATABASE_URL"] = "postgresql://env-generic/test"
    /\ url_out.out = Return("postgresql://env-nova/test")

\* C2: get_database_url raises an error whose message mentions "not configured"
\* exactly when none of the three sources holds a non-empty value (an empty
\* string counts as absent); otherwise it returns a non-empty string.
C2_RaisesIffUnconfigured ==
    url_out.called =>
        LET unconfigured == /\ ~Truthy(url_out.settings)
                            /\ \A n \in EnvNames : ~Truthy(url_out.env[n])
        IN  IF unconfigured
            THEN /\ url_out.out.kind = "raise"
                 /\ Mentions(url_out.out.msg, NotConfigured)
            ELSE /\ url_out.out.kind = "return"
                 /\ url_out.out.value \notin {None, ""}

C2_Witness ==
    /\ url_out.called
    /\ url_out.settings = ""
    /\ url_out.env["NOVA_DATABASE_URL"] = None
    /\ url_out.env["DATABASE_URL"] = ""
    /\ url_out.out.kind = "raise"

----------------------------------------------------------------------------
(* Properties of get_engine and get_session, checked under Spec *)

\* C3: once a pool is cached, it stays the cached pool until the harness reset
\* (it is neither replaced nor set back to None), and every get_engine call
\* that starts meanwhile returns it at once: no URL resolution, no attempt,
\* no sleep.
C3_CachedPoolIsKept ==
    [][ENGINE # NoEngine =>
         /\ ENGINE' = ENGINE \/ (Quiescent /\ ENGINE' = NoEngine /\ engine_writes' = 0)
         /\ \A t \in Threads :
              (th[t].pc = "ge_check" /\ th'[t] # th[t]) =>
                 /\ th'[t].log = <<Ev("check", ENGINE.id)>>
                 /\ IF th[t].op = "get_engine"
                    THEN th'[t].pc = "idle" /\ th'[t].ret = Return(ENGINE)
                    ELSE th'[t].pc = "gs_check" /\ th'[t].gs_engine = ENGINE]_vars

\* C4: a first call makes at most max_retries attempts, numbered 1, 2, ...,
\* none after a successful one; when all max_retries attempts have failed the
\* call raises the exhaustion error, whose cause is the exception raised by
\* attempt number max_retries.
C4_BoundedAttempts ==
    \A t \in Threads :
        LET rec  == th[t]
            log  == rec.log
            at   == Positions(log, AttemptEvents)
            fail == Positions(log, {"attempt_failed"})
        IN  /\ Cardinality(at) <= (IF rec.max_retries > 0 THEN rec.max_retries ELSE 0)
            /\ \A i \in at : log[i].k = Cardinality({j \in at : j <= i})
            /\ \A i \in at : log[i].e = "attempt_ok" => \A j \in at : j <= i
            /\ (rec.max_retries >= 1 /\ Cardinality(fail) = rec.max_retries) =>
                  /\ rec.pc = "idle"
                  /\ rec.ret.kind = "raise"
                  /\ rec.ret.msg = ExhaustedMessage(rec.max_retries)
                  /\ rec.ret.cause # NoExc
                  /\ rec.ret.cause.attempt = rec.max_retries

C4_Witness ==
    \E t \in Threads :
        /\ th[t].op = "get_engine"
        /\ th[t].max_retries = 2
        /\ Cardinality(Positions(th[t].log, {"attempt_failed"})) = 2
        /\ th[t].ret.kind = "raise"
        /\ th[t].ret.cause.attempt = 2

\* C5: linear backoff.  Every failed attempt k < max_retries is followed at
\* once by one sleep of backoff_seconds * k; nothing else is followed by a
\* sleep (not the start of the call, not a successful attempt, not the final
\* failed attempt); a call that exhausts its attempts slept max_retries - 1
\* times.
C5_LinearBackoff ==
    \A t \in Threads :
        LET rec == th[t]
            log == rec.log
        IN  /\ \A i \in Positions(log, {"sleep"}) :
                  /\ i > 1
                  /\ log[i - 1].e = "attempt_failed"
                  /\ log[i - 1].k < rec.max_retries
                  /\ log[i].k = rec.backoff_seconds * log[i - 1].k
            /\ \A i \in Positions(log, {"attempt_failed"}) :
                  log[i].k < rec.max_retries =>
                     i < Len(log) /\ log[i + 1].e = "sleep"
            /\ (ExhaustionFailure(rec) /\ rec.max_retries >= 1) =>
                  Cardinality(Positions(log, {"sleep"})) = rec.max_retries - 1

C5_Witness ==
    \E t \in Threads :
        /\ ExhaustionFailure(th[t])
        /\ th[t].max_retries = 3
        /\ \E i, j \in Positions(th[t].log, {"sleep"}) :
              /\ i < j
              /\ th[t].log[i].k = th[t].backoff_seconds
              /\ th[t].log[j].k = 2 * th[t].backoff_seconds

\* C6: the cached engine is None or an engine whose connect and SELECT 1
\* probe succeeded; every engine get_engine returns (to a caller or into
\* get_session) is such an engine; an engine of a failed attempt is never
\* the cached one.
C6_OnlyProbedEngines ==
    /\ ENGINE # NoEngine => ENGINE.state = "probed"
    /\ \A t \in Threads :
          /\ (th[t].op = "get_engine" /\ th[t].pc = "idle" /\ th[t].ret.kind = "return") =>
                th[t].ret.value.state = "probed"
          /\ th[t].pc \in {"gs_check", "gs_make", "gs_new"} => th[t].gs_engine.state = "probed"
          /\ (th[t].pc = "ge_try" /\ th[t].ge_engine # NoEngine) =>
                /\ th[t].ge_engine.state # "probed"
                /\ th[t].ge_engine # ENGINE

C6_Witness ==
    \E t \in Threads :
        /\ th[t].op = "get_engine"
        /\ th[t].pc = "idle"
        /\ \E i \in Positions(th[t].log, {"attempt_failed"}) : th[t].log[i].k = 1
        /\ \E i \in Positions(th[t].log, {"attempt_ok"}) : th[t].log[i].k = 2
        /\ th[t].ret = Return(ENGINE)
        /\ ENGINE.id = 2
        /\ ENGINE.state = "probed"

\* C7: under concurrent first requests exactly one pool is constructed, the
\* cached pool and the cached session factory are each written at most once,
\* and all callers obtain the same pool and the same session factory.
C7_SingleConstruction ==
    /\ engine_writes <= 1
    /\ factory_writes <= 1
    /\ \A t, u \in Threads :
          (/\ th[t].op = "get_engine" /\ th[t].pc = "idle" /\ th[t].ret.kind = "return"
           /\ th[u].op = "get_engine" /\ th[u].pc = "idle" /\ th[u].ret.kind = "return") =>
             th[t].ret.value = th[u].ret.value
    /\ \A t, u \in Threads :
          (th[t].db # NoSession /\ th[u].db # NoSession) => th[t].db.factory = th[u].db.factory

\* C8: a yielded session stays open while its generator is suspended and is
\* closed exactly once when the generator ends, whichever way the consumer
\* left it (normal completion, an exception thrown in, an early close).
C8_SessionAlwaysClosed ==
    \A t \in Threads :
        /\ th[t].pc = "gs_yielded" => th[t].db.open /\ th[t].db.closes = 0
        /\ (th[t].pc = "idle" /\ th[t].db # NoSession) =>
              /\ ~th[t].db.open
              /\ th[t].db.closes = 1
              /\ th[t].ret \in {StopIteration, ConsumerError, GeneratorClosed}

C8_Witness ==
    \E t \in Threads :
        /\ th[t].pc = "idle"
        /\ th[t].ret = ConsumerError
        /\ th[t].db.bind # NoEngine
        /\ ~th[t].db.open
        /\ th[t].db.closes = 1

\* C9 as stated: a missing-connection-string failure and a retry-exhaustion
\* failure are errors of different kinds.
C9_DistinctKinds ==
    \A t, u \in Threads :
        (ConfigFailure(th[t]) /\ ExhaustionFailure(th[u])) => th[t].ret.type # th[u].ret.type

\* C9 as amended: both failures are raised as RuntimeError; they differ only
\* in the message (only the configuration error mentions "not configured")
\* and in the cause (none for the configuration error, the last attempt's
\* exception for an exhaustion after at least one attempt).
C9_SameKindDistinctMessage ==
    \A t \in Threads :
        /\ ConfigFailure(th[t]) =>
              /\ th[t].ret.type = "RuntimeError"
              /\ Mentions(th[t].ret.msg, NotConfigured)
              /\ th[t].ret.cause = NoExc
        /\ ExhaustionFailure(th[t]) =>
              /\ th[t].ret.type = "RuntimeError"
              /\ ~Mentions(th[t].ret.msg, NotConfigured)
              /\ Mentions(th[t].ret.msg, <<"Could", "not", "initialize">>)
              /\ th[t].max_retries >= 1 => th[t].ret.cause.attempt = th[t].max_retries

C9_Witness ==
    \E t, u \in Threads :
        /\ ConfigFailure(th[t])
        /\ ExhaustionFailure(th[u])
        /\ th[u].max_retries >= 1

\* C10: a get_session call that finds the pool cached resolves no URL, makes
\* no attempt and never sleeps; any get_session call creates one session; an
\* exception thrown into the generator ends the call: it reaches the caller
\* after the session is closed and nothing is tried again.
C10_NoRetryAfterInit ==
    \A t \in Threads :
        th[t].op = "get_session" =>
            LET log == th[t].log
            IN  /\ SawCachedPool(th[t]) => Positions(log, InitEvents) = {}
                /\ Cardinality(Positions(log, {"yield"})) <= 1
                /\ \A i \in Positions(log, {"throw"}) :
                      /\ i = Len(log)
                      /\ i > 1
                      /\ log[i - 1].e = "yield"
                      /\ th[t].pc = "idle"
                      /\ th[t].ret = ConsumerError
                      /\ ~th[t].db.open

C10_Witness ==
    \E t \in Threads :
        /\ th[t].op = "get_session"
        /\ SawCachedPool(th[t])
        /\ Len(th[t].log) = 3
        /\ th[t].log[3].e = "throw"
        /\ th[t].ret = ConsumerError

----------------------------------------------------------------------------
(* Claims about the HTTP surface *)

\* int(s) of a sequence of digit characters
DigitValue(c) == CHOOSE d \in 0..9 : DigitChars[d + 1] = c
RECURSIVE int(_)
int(digits) ==
    IF Len(digits) = 1 THEN DigitValue(digits[1])
    ELSE 10 * int(SubSeq(digits, 1, Len(digits) - 1)) + DigitValue(digits[Len(digits)])

Served == exchange.request # NoRequest
IsJson(r) == r.media_type = "application/json"
IsBaseResponse(r) == IsJson(r) /\ DOMAIN r.body = {"status", "data", "meta"}
IsErrorResponse(r) == IsJson(r) /\ DOMAIN r.body = {"error", "meta"}
RaisedHTTPException == exchange.raised.class = "FastAPIHTTPException"
RaisedOtherException ==
    exchange.raised.class \notin {"None", "FastAPIHTTPException", "StarletteHTTPException"}

\* C11: when a handler raises HTTPException(s, d) the client receives status s and an
\* ErrorResponse whose error.code is "http_" followed by the decimal digits of s and whose
\* error.message is d, or "HTTP error" when d is empty, together with a meta block.
C11_HttpErrorEnvelope ==
    (Served /\ RaisedHTTPException) =>
        LET r == exchange.response
            s == exchange.raised.status_code
            d == exchange.raised.detail
        IN  /\ r.status_code = s
            /\ IsErrorResponse(r)
            /\ Head(r.body.error.code) = "http_"
            /\ int(Tail(r.body.error.code)) = s
            /\ r.body.error.message = (IF d # "" THEN d ELSE "HTTP error")

\* C12: when a handler raises any other exception the client receives status 500 and an
\* ErrorResponse with code "internal_error" and the fixed message; nothing in the body
\* but meta.timestamp depends on the exception.
C12_InternalErrorEnvelope ==
    (Served /\ RaisedOtherException) =>
        LET r == exchange.response
        IN  /\ r.status_code = 500
            /\ IsErrorResponse(r)
            /\ r.body.error = ErrorInfo(<<"internal_error">>, "An unexpected error occurred.")
            /\ [r.body.meta EXCEPT !.timestamp = NoTimestamp]
                 = [build_meta(None, 0, version_info) EXCEPT !.timestamp = NoTimestamp]

\* C13: every request is answered with a BaseResponse or an ErrorResponse, never both and
\* never neither, except that /, /status and /version answer a success with their plain
\* object.
C13_OneEnvelopeShape ==
    Served =>
        LET r == exchange.response
            raw == /\ exchange.request.path \in RawRoutes
                   /\ exchange.raised = NoException
                   /\ r.status_code = 200
                   /\ IsJson(r)
        IN  \/ raw /\ ~IsBaseResponse(r) /\ ~IsErrorResponse(r)
            \/ ~raw /\ (IsBaseResponse(r) # IsErrorResponse(r))

\* the timestamp of the Meta the last step handed out, if it handed one out
Stamped == LastStamp(exchange, NoTimestamp) # NoTimestamp
Stamp == LastStamp(exchange, NoTimestamp).t

\* C14 (as stated): the timestamp of every Meta handed out is the server's time at
\* construction, is not earlier than process start and is not earlier than the timestamp
\* handed out before it.
C14_MonotonicTimestamps ==
    Stamped =>
        /\ Stamp = exchange.at
        /\ Stamp >= start_time
        /\ prev_timestamp # NoTimestamp => Stamp >= prev_timestamp.t

\* C14 (amended): the timestamp of every Meta built, by /health, /actions/handshake, both
\* exception handlers and build_meta, is the reading of the wall clock at construction,
\* whatever the request carries; timestamps are ordered as the clock readings were.
C14_TimestampIsClockReading ==
    /\ \A i \in 1..Len(exchange.built) : exchange.built[i] = Datetime(exchange.at)
    /\ Stamped => Stamp = exchange.at

C14_Witness ==
    /\ Served
    /\ IsBaseResponse(exchange.response)
    /\ exchange.request.date # exchange.at
    /\ prev_timestamp # NoTimestamp
    /\ prev_timestamp.t > Stamp
    /\ Stamp < start_time

VersionServed ==
    /\ Served
    /\ exchange.request.path = "/version"
    /\ exchange.request.method = "GET"

ConfiguredOr(key, default) ==
    IF version_info[key] # Absent THEN ConfiguredVersion[key] ELSE default

\* C15 (as stated): GET /version answers the plain object of four fields, each the
\* configured value when its key is present and "unknown" when it is absent.
C15_VersionDefaultsUnknown ==
    VersionServed =>
        /\ exchange.response.status_code = 200
        /\ exchange.response.body =
             [nova_version |-> ConfiguredOr("version", "unknown"),
              build_date |-> ConfiguredOr("build_date", "unknown"),
              api_schema_version |-> ConfiguredOr("api_schema_version", "unknown"),
              master_doc_version |-> ConfiguredOr("master_doc_version", "unknown")]

\* C15 (amended): GET /version answers the plain object of four fields, each the
\* configured value when its key is present; when absent, nova_version, build_date and
\* master_doc_version are "unknown" and api_schema_version is "v1".
C15_VersionDefaults ==
    VersionServed =>
        /\ exchange.response.status_code = 200
        /\ exchange.response.body =
             [nova_version |-> ConfiguredOr("version", "unknown"),
              build_date |-> ConfiguredOr("build_date", "unknown"),
              api_schema_version |-> ConfiguredOr("api_schema_version", "v1"),
              master_doc_version |-> ConfiguredOr("master_doc_version", "unknown")]

C15_Witness ==
    /\ VersionServed
    /\ version_info["api_schema_version"] = Absent
    /\ version_info["build_date"] = Absent
    /\ version_info["master_doc_version"] # Absent
    /\ exchange.response.body.api_schema_version = "v1"
    /\ exchange.response.body.master_doc_version = ConfiguredVersion["master_doc_version"]

----------------------------------------------------------------------------
(* Claims about the record store *)

\* the last committed record was queried by its own kind and external_id
QueriedBack ==
    /\ fetched.called
    /\ pending.persisted # <<>>
    /\ fetched.kind = pending.persisted[1].set.kind
    /\ fetched.external_id = pending.persisted[1].set.external_id

\* the query returned one record, with the id the store assigned and the values set
RoundTrips ==
    /\ fetched.out.kind = "return"
    /\ fetched.out.value.id = pending.persisted[1].row.id
    /\ fetched.out.value.id > 0
    /\ [fetched.out.value EXCEPT !.id = 0] = pending.persisted[1].set

\* rows of a kind that hold an external_id
RowsWith(kind, external_id) ==
    {i \in 1..Len(tables[kind]) : tables[kind][i].external_id = external_id}

----------------------------------------------------------------------------
(* Further claims about get_engine and get_session *)

\* the call resolved no connection string
Unresolvable(rec) == Resolved(rec) /\ rec.db_url = None

\* C17: with no pool cached and no connection string resolvable, get_engine, and
\* get_session through it, ends at once with the configuration error: no attempt was made,
\* nothing slept, the error is not the exhaustion error and has no cause, and no session
\* was made.
C17_ConfigErrorImmediate ==
    \A t \in Threads :
        LET rec == th[t]
        IN  Unresolvable(rec) =>
              /\ rec.pc = "idle"
              /\ rec.ret = RuntimeError(ConfigMessage, NoExc)
              /\ rec.ret.msg # ExhaustedMessage(rec.max_retries)
              /\ rec.log = <<Ev("check", 0), Ev("resolve", 0)>>
              /\ rec.db = NoSession

C17_Witness ==
    \E t \in Threads :
        /\ th[t].op = "get_session"
        /\ ConfigFailure(th[t])
        /\ th[t].max_retries = DefaultMaxRetries
        /\ environ["NOVA_DATABASE_URL"] = None

\* thread t's call ends in this step with get_engine raising
FailsInGetEngine(t) ==
    /\ th[t].pc \in {"ge_url", "ge_try"}
    /\ th'[t].pc = "idle"
    /\ th'[t].ret.kind = "raise"

\* thread t's call passes the check of the cache in this step
PassesCheck(t) == th[t].pc = "ge_check" /\ th'[t].pc # "ge_check"

\* C18: the step in which get_engine raises writes neither cache: both are as before, and
\* None unless another call cached a pool; get_session then ends without a factory or a
\* session of its own; the failure is not remembered, a later call that finds no pool
\* cached starts the initialisation afresh.
C18_FailureWritesNothing ==
    [][\A t \in Threads :
          /\ FailsInGetEngine(t) =>
                /\ ENGINE' = ENGINE
                /\ SESSION_LOCAL' = SESSION_LOCAL
                /\ engine_writes' = engine_writes /\ factory_writes' = factory_writes
                /\ engine_writes = 0 => (ENGINE' = NoEngine /\ SESSION_LOCAL' = NoFactory)
                /\ th'[t].db = NoSession
                /\ Positions(th'[t].log, {"yield"}) = {}
          /\ (PassesCheck(t) /\ ENGINE = NoEngine /\ sqlalchemy_installed) =>
                /\ th'[t].pc = "ge_url"
                /\ th'[t].attempt = 0
                /\ th'[t].last_exc = NoExc]_vars

C18_Witness ==
    \E t, u \in Threads :
        /\ t # u
        /\ th[t].op = "get_session"
        /\ ExhaustionFailure(th[t])
        /\ th[u].pc = "idle"
        /\ th[u].ret = Return(ENGINE)
        /\ ENGINE.id = MaxEngines
        /\ engine_writes = 1

\* C19: a cached session factory implies a cached pool, the factory is bound to that pool
\* and is created at most once between resets, and every session get_session has yielded
\* is bound to the cached pool.
C19_FactoryBoundToCachedPool ==
    /\ SESSION_LOCAL # NoFactory => (ENGINE # NoEngine /\ SESSION_LOCAL.bind = ENGINE)
    /\ factory_writes <= 1
    /\ \A t \in Threads : th[t].pc = "gs_yielded" => th[t].db.bind = ENGINE

\* a get_engine call that resolved a connection string
Initialising(rec) == rec.op = "get_engine" /\ Resolved(rec) /\ rec.db_url # None

\* C20: with a connection string and no pool cached, get_engine(max_retries <= 0) makes no
\* attempt, does not sleep, raises the exhaustion error without a cause and leaves the
\* cache as it was (None unless another call cached a pool); get_engine(max_retries = 1)
\* makes one attempt and never sleeps.
C20_DegenerateRetryCounts ==
    \A t \in Threads :
        LET rec == th[t]
        IN  /\ (Initialising(rec) /\ rec.max_retries <= 0) =>
                  /\ rec.pc = "idle"
                  /\ rec.ret = RuntimeError(ExhaustedMessage(rec.max_retries), NoExc)
                  /\ rec.log = <<Ev("check", 0), Ev("resolve", 0)>>
                  /\ engine_writes = 0 => ENGINE = NoEngine
            /\ (Initialising(rec) /\ rec.max_retries = 1) =>
                  /\ Cardinality(Positions(rec.log, AttemptEvents)) <= 1
                  /\ Positions(rec.log, {"sleep"}) = {}
                  /\ rec.pc \in {"idle", "ge_cache", "ge_ret"} =>
                        Cardinality(Positions(rec.log, AttemptEvents)) = 1

C20_Witness ==
    \E t, u \in Threads :
        /\ Initialising(th[t]) /\ th[t].max_retries < 0 /\ ExhaustionFailure(th[t])
        /\ Initialising(th[u]) /\ th[u].max_retries = 1 /\ ExhaustionFailure(th[u])
        /\ Positions(th[u].log, {"attempt_failed"}) # {}

====
